---- MODULE Spec2Model ----
(***************************************************************************)
(* A model of enumap.py: Enumap (strict) and SparseEnumap (sparse) map     *)
(* positional and keyword values onto the ordered member names of an Enum. *)
(*                                                                         *)
(* One schema class is modelled together with its lazily cached, name-     *)
(* mangled class attributes, and with the same attributes of the classes   *)
(* Enumap and SparseEnumap it derives from, which the attribute lookup of  *)
(* the schema class falls back to.  Python dicts are functions from keys to      *)
(* values; OrderedDicts (whose iteration order the code relies on) are     *)
(* sequences of <<key, value>> pairs.  A Python value is a sequence of     *)
(* strings: a raw value is <<"x">>, the callable int is <<"int">>, and      *)
(* int(<<"1">>) is <<"int", "1">>, so that casting is visible and casting  *)
(* twice differs from casting once.                                        *)
(***************************************************************************)
EXTENDS Integers, Sequences, FiniteSets

\* ------------------------------------------------------------------------
\* Bounds of the inputs
\* ------------------------------------------------------------------------
\* most positional arguments of one call (more than the two-member schemas have)
MaxPos == 3
\* most keyword arguments of one call
MaxKw == 1
\* most members of a class that both set_types and set_defaults configure
MaxConfigured == 2

\* ------------------------------------------------------------------------
\* Values, callables, names
\* ------------------------------------------------------------------------
None == <<"None">>
Values == {None, <<"x">>, <<"1">>}

\* the unary callables given as types; a types entry may also be None
int == <<"int">>
str == <<"str">>
TypeEntries == {None, int, str}

\* type_callable(value) raises: None is not callable, int rejects None and "x"
Fails(type_callable, value) ==
  \/ type_callable = None
  \/ type_callable = int /\ value \in {None, <<"x">>}

\* the value type_callable(value) returns when it does not raise
Cast(type_callable, value) == type_callable \o value

\* the key zip_longest pairs with a value that has no name
NoneKey == "None"
\* the names a keyword argument may have; "f" is a member of no schema
KwNames == {"b", "c", "e", "f"}

Min(a, b) == IF a <= b THEN a ELSE b
Range(s) == {s[i] : i \in 1..Len(s)}
Index(s, k) == CHOOSE i \in 1..Len(s) : s[i] = k
Perms(S) ==
  {s \in [1..Cardinality(S) -> S] : \A i, j \in 1..Cardinality(S) : i # j => s[i] # s[j]}

\* an OrderedDict is a sequence of <<key, value>> pairs
KeySet(d) == {d[i][1] : i \in 1..Len(d)}
Lookup(d, k) == d[CHOOSE i \in 1..Len(d) : d[i][1] = k][2]
ToDict(d) == [k \in KeySet(d) |-> Lookup(d, k)]
OrderedDict(keys, m) == [i \in 1..Len(keys) |-> <<keys[i], m[keys[i]]>>]

EmptyDict == [k \in {} |-> None]

\* dict(zip(names, values))
zip(nms, values) ==
  [k \in {nms[i] : i \in 1..Min(Len(nms), Len(values))} |-> values[Index(nms, k)]]

\* dict(zip_longest(names, values)): the shorter side is padded with None
zip_longest(nms, values) ==
  [k \in Range(nms) \cup (IF Len(values) > Len(nms) THEN {NoneKey} ELSE {}) |->
     IF k \notin Range(nms) THEN values[Len(values)]
     ELSE IF Index(nms, k) <= Len(values) THEN values[Index(nms, k)]
     ELSE None]

\* a merge in which the earlier entry wins
update_keeps_earlier(m, named) ==
  [k \in DOMAIN m \cup DOMAIN named |-> IF k \in DOMAIN m THEN m[k] ELSE named[k]]

\* dict(pairs, **named_values) and dict.update: the later entry wins
update(m, named) ==
  [k \in DOMAIN m \cup DOMAIN named |-> IF k \in DOMAIN named THEN named[k] ELSE m[k]]

\* ------------------------------------------------------------------------
\* Outcomes of a call: a returned mapping, or the exception raised
\* ------------------------------------------------------------------------
Returned(mapping) ==
  [status |-> "ok", form |-> "", mapping |-> mapping, expected |-> 0, got |-> 0,
   missing |-> {}, invalid |-> {}, key |-> "", value |-> None]

\* KeyError(... expected {n_expected} arguments, got {n_args})
KeyErrorArguments(n_expected, n_args) ==
  [status |-> "KeyError", form |-> "arguments", mapping |-> EmptyDict,
   expected |-> n_expected, got |-> n_args,
   missing |-> {}, invalid |-> {}, key |-> "", value |-> None]

\* KeyError(... missing keys {missing}; invalid keys {invalid})
KeyErrorKeys(form, missing, invalid) ==
  [status |-> "KeyError", form |-> form, mapping |-> EmptyDict,
   expected |-> 0, got |-> 0,
   missing |-> missing, invalid |-> invalid, key |-> "", value |-> None]

TypeCastError(key, value) ==
  [status |-> "TypeCastError", form |-> "", mapping |-> EmptyDict,
   expected |-> 0, got |-> 0,
   missing |-> {}, invalid |-> {}, key |-> key, value |-> value]

TypeError ==
  [status |-> "TypeError", form |-> "", mapping |-> EmptyDict,
   expected |-> 0, got |-> 0,
   missing |-> {}, invalid |-> {}, key |-> "", value |-> None]

\* ------------------------------------------------------------------------
\* Enumap
\* ------------------------------------------------------------------------
\* an error that reports the invalid keys only
Enumap_raise_invalid_only(values, mapping, nms) ==
  IF Len(values) > Len(nms)
  THEN KeyErrorArguments(Len(nms), Len(values))
  ELSE KeyErrorKeys("missing_invalid", {}, DOMAIN mapping \ Range(nms))

Enumap_raise_invalid_args(values, mapping, nms) ==
  IF Len(values) > Len(nms)
  THEN KeyErrorArguments(Len(nms), Len(values))
  ELSE KeyErrorKeys("missing_invalid",
                    Range(nms) \ DOMAIN mapping, DOMAIN mapping \ Range(nms))

Enumap_make_checked_mapping(nms, values, named) ==
  LET mapping == update(zip(nms, values), named)
  IN  IF DOMAIN mapping = Range(nms) /\ Len(values) <= Len(nms)
      THEN Returned(mapping)
      ELSE Enumap_raise_invalid_args(values, mapping, nms)

\* mapping.update(_type_cast_items(mapping, types)): the generator is
\* consumed pair by pair, in the iteration order of types
RECURSIVE type_cast_items(_, _, _)
type_cast_items(mapping, tps, i) ==
  IF i > Len(tps) THEN Returned(mapping)
  ELSE LET key == tps[i][1]
           type_callable == tps[i][2]
       IN  IF key \notin DOMAIN mapping THEN TypeCastError(key, None)
           ELSE IF Fails(type_callable, mapping[key])
                THEN TypeCastError(key, mapping[key])
                ELSE type_cast_items(
                       [mapping EXCEPT ![key] = Cast(type_callable, mapping[key])],
                       tps, i + 1)

\* a casted mapping that is never cast
Enumap_make_uncasted_mapping(nms, tps, values, named) ==
  Enumap_make_checked_mapping(nms, values, named)

Enumap_make_casted_mapping(nms, tps, values, named) ==
  LET checked == Enumap_make_checked_mapping(nms, values, named)
  IN  IF checked.status # "ok" THEN checked
      ELSE type_cast_items(checked.mapping, tps, 1)

\* ------------------------------------------------------------------------
\* SparseEnumap
\* ------------------------------------------------------------------------
\* an error whose set difference is taken the wrong way round
SparseEnumap_raise_missing_args(values, mapping, nms) ==
  IF Len(values) > Len(nms)
  THEN KeyErrorArguments(Len(nms), Len(values))
  ELSE KeyErrorKeys("invalid", {}, Range(nms) \ DOMAIN mapping)

SparseEnumap_raise_invalid_args(values, mapping, nms) ==
  IF Len(values) > Len(nms)
  THEN KeyErrorArguments(Len(nms), Len(values))
  ELSE KeyErrorKeys("invalid", {}, DOMAIN mapping \ Range(nms))

\* a mapping in which a value of None counts as missing
SparseEnumap_make_checked_mapping_none_missing(nms, dflts, values, named) ==
  LET given == update(zip(nms, values), named)
      missing == {k \in Range(nms) : k \notin DOMAIN given \/ given[k] = None}
      mapping == IF Len(dflts) > 0
                 THEN update(given, [k \in missing |-> Lookup(dflts, k)])
                 ELSE update(zip_longest(nms, values), named)
  IN  IF DOMAIN mapping = Range(nms) /\ Len(values) <= Len(nms)
      THEN Returned(mapping)
      ELSE SparseEnumap_raise_invalid_args(values, mapping, nms)

SparseEnumap_make_checked_mapping(nms, dflts, values, named) ==
  LET given == update(zip(nms, values), named)
      missing == Range(nms) \ DOMAIN given
      mapping == IF Len(dflts) > 0
                 THEN update(given, [k \in missing |-> Lookup(dflts, k)])
                 ELSE update(zip_longest(nms, values), named)
  IN  IF DOMAIN mapping = Range(nms) /\ Len(values) <= Len(nms)
      THEN Returned(mapping)
      ELSE SparseEnumap_raise_invalid_args(values, mapping, nms)

\* every typed member, given or not
all_typed(nms, tps, values, named) ==
  IF Len(tps) > 0
  THEN (DOMAIN update(zip(nms, values), named) \cup Range(nms)) \cap KeySet(tps)
  ELSE {}

\* present & set(types): the keys whose values are cast
present_typed(nms, tps, values, named) ==
  IF Len(tps) > 0 THEN DOMAIN update(zip(nms, values), named) \cap KeySet(tps) ELSE {}

\* order is the iteration order of the set present_typed, which the dict
\* relevant_types inherits
SparseEnumap_make_casted_mapping(nms, dflts, tps, order, values, named) ==
  LET given == update(zip(nms, values), named)
      present == DOMAIN given
      missing == Range(nms) \ present
      filled == IF Len(dflts) > 0
                THEN update(given, [k \in missing |-> Lookup(dflts, k)])
                ELSE given
      relevant_types == [i \in 1..Len(order) |-> <<order[i], Lookup(tps, order[i])>>]
      casted == type_cast_items(filled, relevant_types, 1)
      temp == IF Len(dflts) > 0 THEN ToDict(dflts) ELSE [k \in Range(nms) |-> None]
      mapping == update(temp, casted.mapping)
  IN  IF casted.status # "ok" THEN casted
      ELSE IF present \ Range(nms) = {} /\ Len(values) <= Len(nms)
           THEN Returned(mapping)
           ELSE SparseEnumap_raise_invalid_args(values, mapping, nms)

\* every member value taken as a default, default(...) or not
iter_member_values(mbrs) ==
  [k \in {mbrs[i].name : i \in 1..Len(mbrs)} |->
     (CHOOSE m \in Range(mbrs) : m.name = k).value]

\* _iter_member_defaults: only default(...) member values are defaults
iter_member_defaults(mbrs) ==
  LET defs == SelectSeq(mbrs, LAMBDA m : m.is_default)
  IN  [k \in {defs[i].name : i \in 1..Len(defs)} |->
         (CHOOSE m \in Range(defs) : m.name = k).value]

\* a constructor that lets a keyword repeat a positional field and keeps the
\* positional value
namedtuple_new_repeated(fields, values, named) ==
  IF /\ Len(values) <= Len(fields)
     /\ DOMAIN named \subseteq Range(fields)
     /\ \A i \in 1..Len(fields) : i <= Len(values) \/ fields[i] \in DOMAIN named
  THEN Returned(update_keeps_earlier(zip(fields, values), named))
  ELSE TypeError

\* tuple_class(*values, **named_values) of a namedtuple with these fields:
\* the values in field order, or TypeError when the arguments do not bind
namedtuple_new(fields, values, named) ==
  IF /\ Len(values) <= Len(fields)
     /\ DOMAIN named \subseteq Range(fields)
     /\ \A k \in DOMAIN named : Index(fields, k) > Len(values)
     /\ \A i \in 1..Len(fields) : i <= Len(values) \/ fields[i] \in DOMAIN named
  THEN Returned(update(zip(fields, values), named))
  ELSE TypeError

\* ------------------------------------------------------------------------
\* The declared schema classes
\* ------------------------------------------------------------------------
\* a member with a plain value (auto(), 1, ...), and one with default(v)
Plain(n) == [name |-> n, is_default |-> FALSE, value |-> <<"1">>]
Default(n, v) == [name |-> n, is_default |-> TRUE, value |-> v]

Schemas ==
  { \* Enumap("a", names="b c e")
    [base |-> "Enumap", members |-> <<Plain("b"), Plain("c"), Plain("e")>>,
     annotations |-> <<>>],
    \* class Order(Enumap): b: int = ..; c: int = ..; e: str = ..
    [base |-> "Enumap", members |-> <<Plain("b"), Plain("c"), Plain("e")>>,
     annotations |-> << <<"b", int>>, <<"c", int>>, <<"e", str>> >>],
    \* class A(Enumap): e = auto(); b: int = auto()
    [base |-> "Enumap", members |-> <<Plain("e"), Plain("b")>>,
     annotations |-> << <<"b", int>> >>],
    \* SparseEnumap("a", names="b c e")
    [base |-> "SparseEnumap", members |-> <<Plain("b"), Plain("c"), Plain("e")>>,
     annotations |-> <<>>],
    \* class A(SparseEnumap): b: int = 1; c: int = default("1"); e = default("x")
    [base |-> "SparseEnumap",
     members |-> <<Plain("b"), Default("c", <<"1">>), Default("e", <<"x">>)>>,
     annotations |-> << <<"b", int>>, <<"c", int>> >>],
    \* class A(SparseEnumap): e: int = default("1"); b: int = 2
    [base |-> "SparseEnumap", members |-> <<Default("e", <<"1">>), Plain("b")>>,
     annotations |-> << <<"e", int>>, <<"b", int>> >>],
    \* class A(SparseEnumap): pass
    [base |-> "SparseEnumap", members |-> <<>>, annotations |-> <<>>] }

\* ------------------------------------------------------------------------
\* State
\* ------------------------------------------------------------------------
VARIABLES
  base,                          \* "Enumap" or "SparseEnumap": the class derived from
  members,                       \* cls.__members__, in declaration order
  annotations,                   \* cls.__annotations__, in declaration order
  Enumap__names,                 \* cls.__names
  Enumap__tuple_class,           \* cls.__tuple_class: the fields of the namedtuple
  Enumap__member_types,          \* cls.__member_types
  SparseEnumap__member_defaults, \* cls.__member_defaults
  bases,                         \* the same attributes of Enumap and SparseEnumap
  call,                          \* the last call made on the class
  result                         \* what it returned or raised

vars == <<base, members, annotations, Enumap__names, Enumap__tuple_class,
          Enumap__member_types, SparseEnumap__member_defaults, bases, call, result>>

declaration == <<base, members, annotations>>

\* a class attribute that raises AttributeError until it is assigned
Unset == [set |-> FALSE, val |-> <<>>]
Assigned(v) == [set |-> TRUE, val |-> v]

\* Enumap and SparseEnumap are classes too, and every method is a
\* classmethod: called on one of them it caches in the class's own mangled
\* attribute. They declare no members and no annotations, so what they cache
\* is empty, and bases[c] is the set of attributes assigned on class c, out
\* of "names", "tuple_class", "member_types" and "member_defaults".
Classes == {"Enumap", "SparseEnumap"}

\* the attribute lookup on class c, or on a class derived from c that has
\* no attribute of its own, finds one: SparseEnumap derives from Enumap
Found(c, attr) ==
  attr \in bases[c] \/ (c = "SparseEnumap" /\ attr \in bases["Enumap"])

\* cls.__names, cls.__tuple_class, cls.__member_types, cls.__member_defaults
\* as the lookup through the MRO of the schema class resolves them
names_attr ==
  IF Enumap__names.set THEN Enumap__names
  ELSE IF Found(base, "names") THEN Assigned(<<>>) ELSE Unset
tuple_class_attr ==
  IF Enumap__tuple_class.set THEN Enumap__tuple_class
  ELSE IF Found(base, "tuple_class") THEN Assigned(<<>>) ELSE Unset
member_types_attr ==
  IF Enumap__member_types.set THEN Enumap__member_types
  ELSE IF Found(base, "member_types") THEN Assigned(<<>>) ELSE Unset
member_defaults_attr ==
  IF SparseEnumap__member_defaults.set THEN SparseEnumap__member_defaults
  ELSE IF Found(base, "member_defaults") THEN Assigned(<<>>) ELSE Unset

\* names() of a class just created from class c with the member names nms
\* (Enumap("_Defaults", ...), SparseEnumap("temporary_types", ...), ...)
created_names(c, nms) == IF Found(c, "names") THEN <<>> ELSE nms

Positional == UNION {[1..n -> Values] : n \in 0..MaxPos}
Keywords ==
  UNION {[S -> Values] : S \in {T \in SUBSET KwNames : Cardinality(T) <= MaxKw}}

Call(op, values, named) == [op |-> op, values |-> values, named |-> named]

\* what the caller sees: the fields and values of the returned OrderedDict
\* or namedtuple, or the exception
Result(outcome, fields) ==
  [status |-> outcome.status, form |-> outcome.form,
   fields |-> IF outcome.status = "ok" THEN fields ELSE <<>>,
   vals |-> IF outcome.status = "ok"
            THEN [i \in 1..Len(fields) |-> outcome.mapping[fields[i]]] ELSE <<>>,
   expected |-> outcome.expected, got |-> outcome.got,
   missing |-> outcome.missing, invalid |-> outcome.invalid,
   key |-> outcome.key, value |-> outcome.value]

\* no call is in progress and no returned object is held
NoCall == Call("", <<>>, EmptyDict)
NoResult == Result(TypeError, <<>>)

\* the member names in reverse
names_value_reversed ==
  IF names_attr.set THEN names_attr.val
  ELSE [i \in 1..Len(members) |-> members[Len(members) + 1 - i].name]

\* names(): the cached tuple, else tuple(cls.__members__)
names_value ==
  IF names_attr.set THEN names_attr.val
  ELSE [i \in 1..Len(members) |-> members[i].name]

\* tuple_class()._fields
tuple_class_value ==
  IF tuple_class_attr.set THEN tuple_class_attr.val ELSE names_value

\* a types() that answers with an empty mapping once it has cached one
types_value_emptied ==
  IF member_types_attr.set THEN <<>> ELSE annotations

\* types(): the cached mapping, else dict(cls.__annotations__)
types_value ==
  IF member_types_attr.set THEN member_types_attr.val ELSE annotations

\* defaults() when nothing is cached:
\* Enumap("_Defaults", cls.names()).map(*[None] * len(cls), **declared_defaults)
declared_defaults ==
  Enumap_make_checked_mapping(created_names("Enumap", names_value),
                              [i \in 1..Len(members) |-> None],
                              iter_member_defaults(members))

defaults_outcome ==
  IF member_defaults_attr.set
  THEN Returned(ToDict(member_defaults_attr.val))
  ELSE declared_defaults

defaults_value ==
  IF member_defaults_attr.set THEN member_defaults_attr.val
  ELSE IF declared_defaults.status = "ok"
       THEN OrderedDict(names_value, declared_defaults.mapping)
       ELSE <<>>

\* the attributes after names(), tuple_class() and types(): each is assigned
\* only when its lookup raised AttributeError
names_after_names ==
  IF names_attr.set THEN Enumap__names ELSE Assigned(names_value)
tuple_class_after_tuple_class ==
  IF tuple_class_attr.set THEN Enumap__tuple_class ELSE Assigned(tuple_class_value)
types_after_types ==
  IF member_types_attr.set THEN Enumap__member_types ELSE Assigned(types_value)

Init ==
  /\ \E s \in Schemas :
       /\ base = s.base
       /\ members = s.members
       /\ annotations = s.annotations
  /\ Enumap__names = Unset
  /\ Enumap__tuple_class = Unset
  /\ Enumap__member_types = Unset
  /\ SparseEnumap__member_defaults = Unset
  /\ bases = [c \in Classes |-> {}]
  /\ call = NoCall
  /\ result = NoResult

\* ------------------------------------------------------------------------
\* Accessors
\* ------------------------------------------------------------------------
names ==
  /\ call = NoCall
  /\ Enumap__names' = names_after_names
  /\ call' = Call("names", <<>>, EmptyDict)
  /\ result' = NoResult
  /\ UNCHANGED <<declaration, bases, Enumap__tuple_class, Enumap__member_types,
                 SparseEnumap__member_defaults>>

tuple_class ==
  /\ call = NoCall
  /\ Enumap__tuple_class' = tuple_class_after_tuple_class
  /\ Enumap__names' = IF tuple_class_attr.set THEN Enumap__names
                      ELSE names_after_names
  /\ call' = Call("tuple_class", <<>>, EmptyDict)
  /\ result' = NoResult
  /\ UNCHANGED <<declaration, bases, Enumap__member_types,
                 SparseEnumap__member_defaults>>

types ==
  /\ call = NoCall
  /\ Enumap__member_types' = types_after_types
  /\ call' = Call("types", <<>>, EmptyDict)
  /\ result' = NoResult
  /\ UNCHANGED <<declaration, bases, Enumap__names, Enumap__tuple_class,
                 SparseEnumap__member_defaults>>

\* the new values of cls.__names and cls.__member_defaults after defaults()
names_after_defaults ==
  IF member_defaults_attr.set THEN Enumap__names ELSE names_after_names
defaults_after_defaults ==
  IF ~member_defaults_attr.set /\ declared_defaults.status = "ok"
  THEN Assigned(defaults_value)
  ELSE SparseEnumap__member_defaults

defaults ==
  /\ call = NoCall
  /\ base = "SparseEnumap"
  /\ SparseEnumap__member_defaults' = defaults_after_defaults
  /\ Enumap__names' = names_after_defaults
  /\ call' = Call("defaults", <<>>, EmptyDict)
  /\ result' = IF defaults_outcome.status = "ok" THEN NoResult
               ELSE Result(defaults_outcome, <<>>)
  /\ UNCHANGED <<declaration, bases, Enumap__tuple_class, Enumap__member_types>>

\* ------------------------------------------------------------------------
\* map, map_casted, tuple, tuple_casted
\* ------------------------------------------------------------------------
\* cls._make_checked_mapping(*values, **named_values)
checked_outcome(values, named) ==
  IF base = "Enumap"
  THEN Enumap_make_checked_mapping(names_value, values, named)
  ELSE IF defaults_outcome.status # "ok" THEN defaults_outcome
       ELSE SparseEnumap_make_checked_mapping(names_value, defaults_value,
                                              values, named)

\* cls._make_casted_mapping(*values, **named_values)
casted_outcome(order, values, named) ==
  IF base = "Enumap"
  THEN Enumap_make_casted_mapping(names_value, types_value, values, named)
  ELSE IF defaults_outcome.status # "ok" THEN defaults_outcome
       ELSE SparseEnumap_make_casted_mapping(names_value, defaults_value,
                                             types_value, order, values, named)

\* the iteration orders the casting of one call may follow
cast_orders(values, named) ==
  IF base = "Enumap" THEN {<<>>}
  ELSE Perms(present_typed(names_value, types_value, values, named))

\* cls.__member_defaults after cls._make_checked_mapping or _make_casted_mapping
defaults_after_mapping ==
  IF base = "Enumap" THEN SparseEnumap__member_defaults ELSE defaults_after_defaults

\* cls.__member_types after cls._make_casted_mapping: Enumap reads types()
\* once the mapping is checked, SparseEnumap before it checks
types_after_casted(outcome) ==
  IF base = "Enumap"
  THEN IF outcome.status \in {"ok", "TypeCastError"}
       THEN types_after_types ELSE Enumap__member_types
  ELSE IF defaults_outcome.status = "ok"
       THEN types_after_types ELSE Enumap__member_types

map ==
  /\ call = NoCall
  /\ \E values \in Positional, named \in Keywords :
    LET outcome == checked_outcome(values, named)
    IN  /\ call' = Call("map", values, named)
        /\ result' = Result(outcome, names_value)
        /\ Enumap__names' = names_after_names
        /\ SparseEnumap__member_defaults' = defaults_after_mapping
        /\ UNCHANGED <<declaration, bases, Enumap__tuple_class, Enumap__member_types>>

map_casted ==
  /\ call = NoCall
  /\ \E values \in Positional, named \in Keywords :
    \E order \in cast_orders(values, named) :
      LET outcome == casted_outcome(order, values, named)
      IN  /\ call' = Call("map_casted", values, named)
          /\ result' = Result(outcome, names_value)
          /\ Enumap__names' = names_after_names
          /\ SparseEnumap__member_defaults' = defaults_after_mapping
          /\ Enumap__member_types' = types_after_casted(outcome)
          /\ UNCHANGED <<declaration, bases, Enumap__tuple_class>>

tuple ==
  /\ call = NoCall
  /\ \E values \in Positional, named \in Keywords :
    LET fields == tuple_class_value
        direct == namedtuple_new(fields, values, named)
        checked == checked_outcome(values, named)
        outcome == IF direct.status = "ok" THEN direct
                   ELSE IF checked.status # "ok" THEN checked
                   ELSE namedtuple_new(fields, <<>>, checked.mapping)
    IN  /\ call' = Call("tuple", values, named)
        /\ result' = Result(outcome, fields)
        /\ Enumap__tuple_class' = tuple_class_after_tuple_class
        /\ Enumap__names' = IF tuple_class_attr.set /\ direct.status = "ok"
                            THEN Enumap__names ELSE names_after_names
        /\ SparseEnumap__member_defaults' =
             IF direct.status = "ok" THEN SparseEnumap__member_defaults
             ELSE defaults_after_mapping
        /\ UNCHANGED <<declaration, bases, Enumap__member_types>>

tuple_casted ==
  /\ call = NoCall
  /\ \E values \in Positional, named \in Keywords :
    \E order \in cast_orders(values, named) :
      LET casted == casted_outcome(order, values, named)
          fields == tuple_class_value
          outcome == IF casted.status # "ok" THEN casted
                     ELSE namedtuple_new(fields, <<>>, casted.mapping)
      IN  /\ call' = Call("tuple_casted", values, named)
          /\ result' = Result(outcome, fields)
          /\ Enumap__names' = names_after_names
          /\ SparseEnumap__member_defaults' = defaults_after_mapping
          /\ Enumap__member_types' = types_after_casted(casted)
          /\ Enumap__tuple_class' = IF casted.status = "ok"
                                    THEN tuple_class_after_tuple_class
                                    ELSE Enumap__tuple_class
          /\ UNCHANGED <<declaration, bases>>

\* the caller drops the object it was returned (or the exception it caught)
\* before it makes its next call; the class keeps no reference to either
drop_result ==
  /\ call # NoCall
  /\ call' = NoCall
  /\ result' = NoResult
  /\ UNCHANGED <<declaration, bases, Enumap__names, Enumap__tuple_class,
                 Enumap__member_types, SparseEnumap__member_defaults>>

\* ------------------------------------------------------------------------
\* set_types
\* ------------------------------------------------------------------------
TypePositional == UNION {[1..n -> TypeEntries] : n \in 0..MaxPos}
TypeKeywords ==
  UNION {[S -> TypeEntries] : S \in {T \in SUBSET KwNames : Cardinality(T) <= MaxKw}}

\* temporary_types.defaults(): the temporary class declares no defaults, so
\* Enumap("_Defaults", names).map(*[None] * len(temporary_types))
temporary_defaults(nms) ==
  IF Found("SparseEnumap", "member_defaults") THEN Returned(EmptyDict)
  ELSE Enumap_make_checked_mapping(
         created_names("Enumap", created_names("SparseEnumap", nms)),
         [i \in 1..Len(nms) |-> None], EmptyDict)

\* SparseEnumap("temporary_types", cls.names()).map(*types, **named_types)
sparse_type_map(nms, tps, named) ==
  LET temporary_names == created_names("SparseEnumap", nms)
      dflts == temporary_defaults(nms)
  IN  IF dflts.status # "ok" THEN dflts
      ELSE SparseEnumap_make_checked_mapping(
             temporary_names,
             OrderedDict(SelectSeq(temporary_names,
                                   LAMBDA k : k \in DOMAIN dflts.mapping),
                         dflts.mapping),
             tps, named)

\* tuple(non_null_types.keys()): the names, in order, whose entry is not None
non_null_types(nms, mapping) == SelectSeq(nms, LAMBDA k : mapping[k] # None)

\* type_subset.names(), of Enumap(f"{cls.__name__}_types", non_null_types.keys())
type_subset_names(nms, tps, named) ==
  created_names("Enumap",
                non_null_types(created_names("SparseEnumap", nms),
                               sparse_type_map(nms, tps, named).mapping))

\* type_subset.map(*types, **named_types)
set_types_outcome(nms, tps, named) ==
  LET sparse == sparse_type_map(nms, tps, named)
  IN  IF sparse.status # "ok" THEN sparse
      ELSE Enumap_make_checked_mapping(type_subset_names(nms, tps, named),
                                       tps, named)

\* a set_types that adds the new entries to the ones types() already has
set_types_merging ==
  /\ call = NoCall
  /\ \E tps \in TypePositional, named \in TypeKeywords :
       LET outcome == set_types_outcome(names_value, tps, named)
           type_subset == type_subset_names(names_value, tps, named)
           merged_keys ==
             SelectSeq(names_value,
                       LAMBDA k : k \in Range(type_subset) \/ k \in KeySet(types_value))
           merged == [k \in Range(merged_keys) |->
                        IF k \in Range(type_subset) THEN outcome.mapping[k]
                        ELSE Lookup(types_value, k)]
       IN  /\ call' = Call("set_types", tps, named)
           /\ result' = Result(outcome, <<>>)
           /\ Enumap__names' = names_after_names
           /\ Enumap__member_types' =
                IF outcome.status = "ok"
                THEN Assigned(OrderedDict(merged_keys, merged))
                ELSE Enumap__member_types
           /\ UNCHANGED <<declaration, bases, Enumap__tuple_class,
                          SparseEnumap__member_defaults>>

set_types ==
  /\ call = NoCall
  /\ \E tps \in TypePositional, named \in TypeKeywords :
       LET outcome == set_types_outcome(names_value, tps, named)
           type_subset == type_subset_names(names_value, tps, named)
       IN  /\ call' = Call("set_types", tps, named)
           /\ result' = Result(outcome, <<>>)
           /\ Enumap__names' = names_after_names
           /\ Enumap__member_types' =
                IF outcome.status = "ok"
                THEN Assigned(OrderedDict(type_subset, outcome.mapping))
                ELSE Enumap__member_types
           /\ UNCHANGED <<declaration, bases, Enumap__tuple_class,
                          SparseEnumap__member_defaults>>

\* ------------------------------------------------------------------------
\* set_defaults
\* ------------------------------------------------------------------------
\* a set_defaults checked as a strict class checks: every member is required
set_defaults_outcome_strict(values, named) ==
  Enumap_make_checked_mapping(names_value, values, named)

\* cls.map(*values, **named_values): the mapping set_defaults stores
set_defaults_outcome(values, named) == checked_outcome(values, named)

\* a set_defaults that deletes cls.__member_defaults when cls.map raises
defaults_after_set_defaults_cleared(outcome) ==
  IF outcome.status = "ok"
  THEN Assigned(OrderedDict(names_value, outcome.mapping))
  ELSE Unset

\* cls.__member_defaults after set_defaults: cls.map has read defaults()
\* before the assignment, and no assignment is made when it raises
defaults_after_set_defaults(outcome) ==
  IF outcome.status = "ok"
  THEN Assigned(OrderedDict(names_value, outcome.mapping))
  ELSE defaults_after_mapping

\* set_defaults is a method of SparseEnumap only
set_defaults ==
  /\ call = NoCall
  /\ base = "SparseEnumap"
  /\ \E values \in Positional, named \in Keywords :
       LET outcome == set_defaults_outcome(values, named)
       IN  /\ call' = Call("set_defaults", values, named)
           /\ result' = Result(outcome, <<>>)
           /\ Enumap__names' = names_after_names
           /\ SparseEnumap__member_defaults' = defaults_after_set_defaults(outcome)
           /\ UNCHANGED <<declaration, bases, Enumap__tuple_class,
                          Enumap__member_types>>

\* ------------------------------------------------------------------------
\* The accessors called on Enumap or SparseEnumap itself
\* ------------------------------------------------------------------------
\* bases after c.names(): tuple(c.__members__) is the empty tuple
bases_after_names(c) ==
  IF Found(c, "names") THEN bases ELSE [bases EXCEPT ![c] = @ \cup {"names"}]

\* bases after c.tuple_class(), which calls c.names() when it finds no
\* cached class
bases_after_tuple_class(c) ==
  IF Found(c, "tuple_class") THEN bases
  ELSE [bases EXCEPT ![c] = @ \cup {"tuple_class"} \cup
                              (IF Found(c, "names") THEN {} ELSE {"names"})]

\* bases after c.types(): dict(getattr(c, "__annotations__", {})) is empty
bases_after_types(c) ==
  IF Found(c, "member_types") THEN bases
  ELSE [bases EXCEPT ![c] = @ \cup {"member_types"}]

\* bases after SparseEnumap.defaults(): Enumap("_Defaults", ()).map() is empty
bases_after_defaults ==
  IF Found("SparseEnumap", "member_defaults") THEN bases
  ELSE [bases EXCEPT !["SparseEnumap"] =
          @ \cup {"member_defaults"} \cup
            (IF Found("SparseEnumap", "names") THEN {} ELSE {"names"})]

\* the class called is kept as the argument of the call
base_names ==
  /\ call = NoCall
  /\ \E c \in Classes :
       /\ bases' = bases_after_names(c)
       /\ call' = Call("base.names", << <<c>> >>, EmptyDict)
  /\ result' = NoResult
  /\ UNCHANGED <<declaration, Enumap__names, Enumap__tuple_class,
                 Enumap__member_types, SparseEnumap__member_defaults>>

base_tuple_class ==
  /\ call = NoCall
  /\ \E c \in Classes :
       /\ bases' = bases_after_tuple_class(c)
       /\ call' = Call("base.tuple_class", << <<c>> >>, EmptyDict)
  /\ result' = NoResult
  /\ UNCHANGED <<declaration, Enumap__names, Enumap__tuple_class,
                 Enumap__member_types, SparseEnumap__member_defaults>>

base_types ==
  /\ call = NoCall
  /\ \E c \in Classes :
       /\ bases' = bases_after_types(c)
       /\ call' = Call("base.types", << <<c>> >>, EmptyDict)
  /\ result' = NoResult
  /\ UNCHANGED <<declaration, Enumap__names, Enumap__tuple_class,
                 Enumap__member_types, SparseEnumap__member_defaults>>

\* defaults is a method of SparseEnumap only
base_defaults ==
  /\ call = NoCall
  /\ bases' = bases_after_defaults
  /\ call' = Call("base.defaults", << <<"SparseEnumap">> >>, EmptyDict)
  /\ result' = NoResult
  /\ UNCHANGED <<declaration, Enumap__names, Enumap__tuple_class,
                 Enumap__member_types, SparseEnumap__member_defaults>>

Next ==
  \/ drop_result
  \/ names
  \/ tuple_class
  \/ types
  \/ defaults
  \/ map
  \/ map_casted
  \/ tuple
  \/ tuple_casted

\* the construction calls and the accessors of a declared class
Spec == Init /\ [][Next]_vars

\* the type registry of a declared class: set_types and types()
NextTypes ==
  \/ drop_result
  \/ types
  \/ set_types

SpecTypes == Init /\ [][NextTypes]_vars

\* the defaults of a declared class: set_defaults and defaults()
NextDefaults ==
  \/ drop_result
  \/ defaults
  \/ set_defaults

SpecDefaults == Init /\ [][NextDefaults]_vars

\* every call that configures a declared class, and what it configures
NextConfig ==
  \/ drop_result
  \/ types
  \/ defaults
  \/ set_types
  \/ set_defaults

\* the declared classes of at most MaxConfigured members
InitConfig == Init /\ Len(members) <= MaxConfigured

SpecConfig == InitConfig /\ [][NextConfig]_vars

\* a declared class used next to calls on the base class it derives from
NextBases ==
  \/ drop_result
  \/ names
  \/ tuple_class
  \/ types
  \/ defaults
  \/ base_names
  \/ base_tuple_class
  \/ base_types
  \/ base_defaults

SpecBases == Init /\ [][NextBases]_vars

\* ------------------------------------------------------------------------
\* Properties
\* ------------------------------------------------------------------------
DeclaredNames == [i \in 1..Len(members) |-> members[i].name]
DeclaredDefault(k) ==
  LET m == CHOOSE m \in Range(members) : m.name = k
  IN  IF m.is_default THEN m.value ELSE None

Strict == base = "Enumap"
Sparse == base = "SparseEnumap"
Constructed == call.op \in {"map", "tuple", "map_casted", "tuple_casted"}
Uncasted == call.op \in {"map", "tuple"}
Casted == call.op \in {"map_casted", "tuple_casted"}

\* the arguments of the last call, read against names()
PositionalFor(k) ==
  k \in Range(names_value) /\ Index(names_value, k) <= Len(call.values)
Supplied(k) == k \in DOMAIN call.named \/ PositionalFor(k)
MergedKeys == {k \in Range(names_value) : PositionalFor(k)} \cup DOMAIN call.named
ResolvedValue(k) ==
  IF k \in DOMAIN call.named THEN call.named[k]
  ELSE call.values[Index(names_value, k)]
Typed(k) == k \in KeySet(types_value)
CastValue(k) == Cast(Lookup(types_value, k), ResolvedValue(k))
ExpectedValue(k) == IF Casted /\ Typed(k) THEN CastValue(k) ELSE ResolvedValue(k)
\* the supplied members whose callable raises on the value supplied
FailingFields ==
  {k \in Range(names_value) :
     Supplied(k) /\ Typed(k) /\ Fails(Lookup(types_value, k), ResolvedValue(k))}
ArgumentsFit ==
  /\ Len(call.values) <= Len(names_value)
  /\ DOMAIN call.named \subseteq Range(names_value)
  /\ Strict => \A k \in Range(names_value) : Supplied(k)
Overrides(k) ==
  /\ k \in DOMAIN call.named
  /\ PositionalFor(k)
  /\ call.named[k] # call.values[Index(names_value, k)]

\* the last call's result
Succeeded == result.status = "ok"
ResultAt(k) == result.vals[Index(result.fields, k)]
TooManyArguments == result.status = "KeyError" /\ result.form = "arguments"
SchemaMismatch ==
  result.status = "KeyError" /\ result.form \in {"missing_invalid", "invalid"}

\* C1: in map, tuple, map_casted and tuple_casted, of a strict or a sparse
\* class, a keyword value given for a member that a positional value also
\* covers is no error, the member gets the keyword value (cast, in the casted
\* calls, when the member is typed) and every other member covered by a
\* positional value keeps the value at its index in names().
C1_KeywordOverridesPositional ==
  Constructed =>
    /\ Succeeded =>
         \A k \in Range(names_value) : PositionalFor(k) => ResultAt(k) = ExpectedValue(k)
    /\ (ArgumentsFit /\ \E k \in DOMAIN call.named : PositionalFor(k)) =>
         IF Casted THEN FailingFields = {} => Succeeded ELSE Succeeded

C1_Witness ==
  /\ Strict /\ call.op = "tuple" /\ Succeeded
  /\ \E k, j \in Range(names_value) :
       /\ Overrides(k) /\ ResultAt(k) = call.named[k]
       /\ j # k /\ PositionalFor(j) /\ j \notin DOMAIN call.named
       /\ call.values[Index(names_value, j)] # call.named[k]

\* C2: every successful map, map_casted, tuple and tuple_casted returns the
\* members in declared order, which is what names() returns: one value per
\* member, none dropped, added or reordered, and never sorted.
C2_FieldsAreNamesInOrder ==
  (Constructed /\ Succeeded) =>
    /\ result.fields = names_value
    /\ names_value = DeclaredNames
    /\ Len(result.vals) = Len(DeclaredNames)

C2_Witness ==
  /\ call.op = "tuple" /\ Succeeded
  /\ result.fields = <<"e", "b">>
  /\ DOMAIN call.named = {"b"} /\ Len(call.values) = 1

\* C3: a call on a strict class with at most len(names) positional values is
\* free of a key error if and only if the merged keys (positional by order,
\* plus keywords) are exactly the names; map and tuple then succeed;
\* otherwise the one KeyError carries missing = names - merged keys and
\* invalid = merged keys - names, each also when the other is empty.
C3_StrictSchemaMismatch ==
  (Strict /\ Constructed /\ Len(call.values) <= Len(names_value)) =>
    IF MergedKeys = Range(names_value)
    THEN /\ result.status # "KeyError"
         /\ Uncasted => Succeeded
    ELSE /\ result.status = "KeyError" /\ result.form = "missing_invalid"
         /\ result.missing = Range(names_value) \ MergedKeys
         /\ result.invalid = MergedKeys \ Range(names_value)

C3_Witness ==
  /\ Strict /\ call.op = "map" /\ SchemaMismatch
  /\ result.missing # {} /\ result.invalid # {}
  /\ Len(call.values) > 0

\* C4: a call with more positional values than names fails with the
\* arguments error (expected len(names), got len(values)), for strict and
\* sparse classes and all four calls, whatever the keywords are.
C4_TooManyArguments ==
  (Constructed /\ Len(call.values) > Len(names_value)) =>
    /\ TooManyArguments
    /\ result.expected = Len(names_value)
    /\ result.got = Len(call.values)

\* C5: in map and tuple of a sparse class each member's value is the keyword
\* value if one was given, else the positional value at its index if one was
\* given (None included), else the member's declared default, else None.
C5_SparsePrecedence ==
  (Sparse /\ Uncasted /\ Succeeded) =>
    /\ result.fields = DeclaredNames
    /\ \A k \in Range(DeclaredNames) :
         ResultAt(k) = IF k \in DOMAIN call.named THEN call.named[k]
                       ELSE IF PositionalFor(k)
                            THEN call.values[Index(DeclaredNames, k)]
                            ELSE DeclaredDefault(k)

C5_Witness ==
  /\ Sparse /\ call.op = "map" /\ Succeeded
  /\ \E k, j, d \in Range(names_value) :
       /\ Overrides(k)
       /\ PositionalFor(j) /\ j \notin DOMAIN call.named
       /\ ResolvedValue(j) = None /\ DeclaredDefault(j) # None /\ ResultAt(j) = None
       /\ ~Supplied(d) /\ DeclaredDefault(d) # None /\ ResultAt(d) = DeclaredDefault(d)

C7_StrictCast ==
  (Strict /\ Casted) =>
    /\ Succeeded =>
         /\ result.fields = DeclaredNames
         /\ \A k \in Range(DeclaredNames) :
              ResultAt(k) = IF Typed(k) THEN CastValue(k) ELSE ResolvedValue(k)
    /\ (ArgumentsFit /\ FailingFields = {}) => Succeeded

C7_Witness ==
  /\ Strict /\ call.op = "tuple_casted" /\ Succeeded
  /\ \E k, j \in Range(names_value) :
       /\ Overrides(k) /\ Typed(k) /\ ResultAt(k) = int \o call.named[k]
       /\ ~Typed(j) /\ ResultAt(j) = ResolvedValue(j)

\* C8: map_casted and tuple_casted of a sparse class cast only the members
\* that were supplied and are typed; a member filled from the defaults is
\* returned uncast even when it is typed, and a supplied member without a
\* type is returned unchanged.
C8_SparseCast ==
  (Sparse /\ Casted /\ Succeeded) =>
    /\ result.fields = DeclaredNames
    /\ \A k \in Range(DeclaredNames) :
         ResultAt(k) = IF ~Supplied(k) THEN DeclaredDefault(k)
                       ELSE IF Typed(k) THEN CastValue(k)
                       ELSE ResolvedValue(k)

C8_Witness ==
  /\ Sparse /\ call.op = "map_casted" /\ Succeeded
  /\ \E k, j, d \in Range(names_value) :
       /\ Supplied(k) /\ Typed(k) /\ ResultAt(k) = int \o ResolvedValue(k)
       /\ Supplied(j) /\ ~Typed(j) /\ ResultAt(j) = ResolvedValue(j)
       /\ ~Supplied(d) /\ Typed(d) /\ DeclaredDefault(d) # None
       /\ ResultAt(d) = DeclaredDefault(d)

\* C9: the TypeCastError of a map_casted or tuple_casted call names the
\* failing member that comes first in names() and carries that member's
\* raw value, for strict and sparse classes alike.
C9_FirstFailingField ==
  (Casted /\ result.status = "TypeCastError") =>
    /\ result.key \in FailingFields
    /\ \A k \in FailingFields : Index(names_value, result.key) <= Index(names_value, k)
    /\ result.value = ResolvedValue(result.key)

\* C10: set_types with at most len(names) positional entries and only names
\* as keywords succeeds, also when entries are None, and types() then has a
\* key for a member if and only if the member's resolved entry (the keyword
\* entry, else the positional entry at its index) is not None, mapped to that
\* entry.
C10_SetTypesStoresNonNone ==
  (/\ call.op = "set_types"
   /\ Len(call.values) <= Len(names_value)
   /\ DOMAIN call.named \subseteq Range(names_value)) =>
    /\ Succeeded
    /\ KeySet(types_value) =
         {k \in Range(names_value) : Supplied(k) /\ ResolvedValue(k) # None}
    /\ \A k \in KeySet(types_value) : Lookup(types_value, k) = ResolvedValue(k)

\* C11: after a successful set_types, types() reflects only that call: a
\* member that the call gave no entry, or the entry None, has no key in
\* types(), whatever type an earlier set_types or an annotation gave it (the
\* mapping is replaced, not merged).
C11_SetTypesReplaces ==
  (call.op = "set_types" /\ Succeeded) =>
    \A k \in Range(names_value) :
      (~Supplied(k) \/ ResolvedValue(k) = None) => ~Typed(k)

C11_Witness ==
  /\ call.op = "set_types" /\ Succeeded
  /\ \E k \in KeySet(annotations), j \in Range(names_value) :
       /\ Lookup(annotations, k) = int /\ ~Supplied(k) /\ ~Typed(k)
       /\ Typed(j) /\ Lookup(types_value, j) = str

\* what defaults()[k] returns
DefaultOf(k) == Lookup(defaults_value, k)

\* C12: set_defaults of a sparse class succeeds if and only if every keyword
\* is a name and at most len(names) positional values are given, whichever
\* members the arguments cover (none included), and raises the KeyError of a
\* construction call otherwise; after a success the keys of defaults() are
\* exactly names(), in order, and every member the call supplied maps to the
\* value supplied.
C12_SetDefaultsChecked ==
  call.op = "set_defaults" =>
    /\ Succeeded <=> /\ DOMAIN call.named \subseteq Range(names_value)
                     /\ Len(call.values) <= Len(names_value)
    /\ ~Succeeded => (TooManyArguments \/ SchemaMismatch)
    /\ Succeeded =>
         /\ [i \in 1..Len(defaults_value) |-> defaults_value[i][1]] = names_value
         /\ \A k \in Range(names_value) : Supplied(k) => DefaultOf(k) = ResolvedValue(k)

C12_Witness ==
  /\ call.op = "set_defaults" /\ Succeeded
  /\ Len(call.values) = 1 /\ DOMAIN call.named # {}
  /\ \E k, j \in Range(names_value) :
       /\ Supplied(k) /\ DefaultOf(k) = <<"x">>
       /\ ~Supplied(j) /\ j \in KeySet(defaults_value)

\* the last call was a successful set_defaults that supplied member k
Wrote(k) == call.op = "set_defaults" /\ Succeeded /\ Supplied(k)

\* C13: the default of each member of a sparse class is decided by its last
\* writer: before any set_defaults it is the member's inline default(...)
\* value, or None when the member has a plain value; every step leaves it as
\* it was, except a successful set_defaults that supplies the member, which
\* sets it to the value supplied.
C13_LastWriterPerField ==
  /\ Sparse => \A k \in Range(DeclaredNames) : DefaultOf(k) = DeclaredDefault(k)
  /\ [][Sparse =>
          \A k \in Range(DeclaredNames) :
            DefaultOf(k)' = IF Wrote(k)' THEN ResolvedValue(k)' ELSE DefaultOf(k)]_vars

C13_Witness ==
  /\ call.op = "set_defaults" /\ Succeeded
  /\ \E k, j, d \in Range(DeclaredNames) :
       /\ Supplied(k) /\ DefaultOf(k) = ResolvedValue(k)
       /\ DefaultOf(k) # DeclaredDefault(k)
       /\ ~Supplied(j) /\ ~(CHOOSE m \in Range(members) : m.name = j).is_default
       /\ DefaultOf(j) = <<"x">>
       /\ ~Supplied(d) /\ DeclaredDefault(d) # None /\ DefaultOf(d) = DeclaredDefault(d)

\* what map returns or raises on the arguments of the last call
MapResult == Result(checked_outcome(call.values, call.named), names_value)
\* what map_casted returns or raises on them, for each order of casting
MapCastedResults ==
  {Result(casted_outcome(order, call.values, call.named), names_value) :
     order \in cast_orders(call.values, call.named)}
\* tuple took its fast path: tuple_class(*values, **named_values) did not raise
FastPath ==
  namedtuple_new(tuple_class_value, call.values, call.named).status = "ok"

\* C14: tuple agrees with map, and tuple_casted with map_casted, on every
\* class and every argument list: the same exception with the same contents,
\* or the same fields in the order of names() with the same value for each,
\* also when tuple builds the namedtuple straight from the arguments.
C14_MapAndTupleAgree ==
  /\ call.op = "tuple" => result = MapResult
  /\ call.op = "tuple_casted" => result \in MapCastedResults

C14_Witness ==
  /\ call.op = "tuple" /\ Succeeded /\ FastPath
  /\ Len(call.values) > 0 /\ DOMAIN call.named # {}
  /\ result = MapResult
  /\ \E k \in DOMAIN call.named : ResultAt(k) # call.values[1]

\* the defaults the class declares
DeclaredDefaults ==
  OrderedDict(DeclaredNames, [k \in Range(DeclaredNames) |-> DeclaredDefault(k)])
\* what tuple returns or raises on the arguments of the last call
TupleResult ==
  LET direct == namedtuple_new(tuple_class_value, call.values, call.named)
      checked == checked_outcome(call.values, call.named)
  IN  Result(IF direct.status = "ok" THEN direct
             ELSE IF checked.status # "ok" THEN checked
             ELSE namedtuple_new(tuple_class_value, <<>>, checked.mapping),
             tuple_class_value)
\* what tuple_casted returns or raises on them, for each order of casting
TupleCastedResults ==
  {LET casted == casted_outcome(order, call.values, call.named)
   IN  Result(IF casted.status # "ok" THEN casted
              ELSE namedtuple_new(tuple_class_value, <<>>, casted.mapping),
              tuple_class_value) :
     order \in cast_orders(call.values, call.named)}
\* what the last call returns or raises when it is made again now
RepeatedResults ==
  IF call.op = "map" THEN {MapResult}
  ELSE IF call.op = "tuple" THEN {TupleResult}
  ELSE IF call.op = "map_casted" THEN MapCastedResults
  ELSE TupleCastedResults

\* C15: on a class that no set_types or set_defaults has changed, names(),
\* types(), tuple_class() and defaults() stay what the class declares
\* whichever construction calls were made, failed ones included, and a map,
\* tuple, map_casted or tuple_casted call made again with the same arguments
\* has the result it had: the same values, or the same exception.
C15_RepeatedCallsAgree ==
  /\ names_value = DeclaredNames
  /\ tuple_class_value = DeclaredNames
  /\ types_value = annotations
  /\ Sparse => defaults_value = DeclaredDefaults
  /\ Constructed => result \in RepeatedResults

C15_Witness ==
  /\ Sparse /\ call.op = "map_casted" /\ Succeeded
  /\ Enumap__tuple_class.set /\ SparseEnumap__member_defaults.set
  /\ result \in RepeatedResults
  /\ \E k, d \in Range(names_value) :
       /\ Supplied(k) /\ Typed(k) /\ ResultAt(k) = int \o ResolvedValue(k)
       /\ ~Supplied(d) /\ ResultAt(d) = <<"x">>

\* the last call was a set_types or set_defaults that raised
ConfigurationFailed == call.op \in {"set_types", "set_defaults"} /\ ~Succeeded

\* C16: a set_types or set_defaults that raises, for an invalid name or for
\* too many positional values, changes nothing a later call reads: names(),
\* tuple_class(), types() and defaults() return after it what they returned
\* before it, so every later construction call has the result it would have
\* had without the failed call.
C16_FailedConfigurationAtomic ==
  [][ConfigurationFailed' =>
       /\ names_value' = names_value
       /\ tuple_class_value' = tuple_class_value
       /\ types_value' = types_value
       /\ defaults_value' = defaults_value]_vars

C16_Witness ==
  /\ Sparse /\ call.op = "set_types" /\ SchemaMismatch
  /\ Enumap__member_types.set /\ types_value # annotations
  /\ \E k \in Range(DeclaredNames) : DefaultOf(k) # DeclaredDefault(k)

\* C17: map_casted and tuple_casted cast only arguments that passed the
\* check of map and tuple: on arguments for which map raises its KeyError
\* (too many positional values, or keys that do not fit the names) the casted
\* call raises that same KeyError, never a TypeCastError, on strict and on
\* sparse classes, whatever types() holds.
C17_CastAfterValidation ==
  (Casted /\ MapResult.status = "KeyError") => result = MapResult

\* C18: what names(), tuple_class(), types() and defaults() of a class
\* return depends on the class's own declaration and its own set_types and
\* set_defaults calls only: with no such call made they return what the
\* class declares, whatever was called before on another class, the
\* member-less base classes Enumap and SparseEnumap included.
C18_CachesIsolated ==
  /\ names_value = DeclaredNames
  /\ tuple_class_value = DeclaredNames
  /\ types_value = annotations
  /\ Sparse => defaults_value = DeclaredDefaults

====
